---- MODULE Spec2Model ----
(***************************************************************************)
(* Model of review_wordcloud_app.py: one Streamlit script run that loads a *)
(* review table, resolves the review / rating columns, classifies every    *)
(* row, extracts and counts nouns per bucket, renders three word clouds    *)
(* and asks the language-model service for a report.                       *)
(*                                                                         *)
(* Strings are sequences of Unicode code points, so that substring         *)
(* containment, strip(), lower() and len() are computed as Python computes *)
(* them.                                                                   *)
(***************************************************************************)
EXTENDS Integers, Sequences, FiniteSets, TLC

VARIABLES
  pc,          \* position of the script run
  df,          \* the loaded table: [columns, rows]; a row is a tuple of cells
  kiwi,        \* kiwi.analyze's answer for each row's cleaned review text
  api_key,     \* sidebar text input (line 125); <<>> when left empty
  max_words,   \* slider, line 128
  min_wl,      \* slider, line 129
  top_n,       \* slider, line 130
  csw,         \* extra stopwords text area (line 133), split at the commas
  rc,          \* resolved review column (None when unresolved)
  rtc,         \* resolved rating column (None when there is none)
  pmin,        \* slider "positive minimum", line 157 (only with a rating column)
  nmax,        \* slider "negative maximum", line 157 (only with a rating column)
  esw,         \* the user exclusion set, line 159
  sent,        \* rdf["sent"]: one label per row
  pf, nf, af,  \* the Counters of the three buckets, in insertion order
  taggerIn,    \* the cleaned texts handed to kiwi.analyze, in call order
  fig,         \* per bucket: the figure of make_wc: "none", "open", "closed"
  figKind,     \* per bucket: "none", "placeholder", "cloud"
  cloudTerms,  \* per bucket: the terms the layout engine laid out
  engineCalls, \* per bucket: calls of WordCloud.generate_from_frequencies
  attempted,   \* buckets whose render block was entered
  ui,          \* the elements written to the page
  llmCalls,    \* calls of model.generate_content
  llmResult    \* how the call ended: "none", "ok", "error"

vars == << pc, df, kiwi, api_key, max_words, min_wl, top_n, csw, rc, rtc,
           pmin, nmax, esw, sent, pf, nf, af, taggerIn, fig, figKind,
           cloudTerms, engineCalls, attempted, ui, llmCalls, llmResult >>

----------------------------------------------------------------------------
(* Lexicon Store, lines 18-29, and the alias lists, lines 49-50.           *)

STOPWORDS ==
  {
    <<44163>>,  \* 것
    <<49688>>,  \* 수
    <<46321>>,  \* 등
    <<45908>>,  \* 더
    <<50948>>,  \* 위
    <<46412>>,  \* 때
    <<51473>>,  \* 중
    <<44275>>,  \* 곳
    <<44152>>,  \* 걸
    <<47952>>,  \* 뭐
    <<51328>>,  \* 좀
    <<51096>>,  \* 잘
    <<44536>>,  \* 그
    <<51060>>,  \* 이
    <<51200>>,  \* 저
    <<46608>>,  \* 또
    <<48143>>,  \* 및
    <<47484>>,  \* 를
    <<50640>>,  \* 에
    <<51032>>,  \* 의
    <<44032>>,  \* 가
    <<51008>>,  \* 은
    <<45716>>,  \* 는
    <<47196>>,  \* 로
    <<50752>>,  \* 와
    <<44284>>,  \* 과
    <<46020>>,  \* 도
    <<46308>>,  \* 들
    <<45208>>,  \* 나
    <<46412, 47928>>,  \* 때문
    <<44144>>,  \* 거
    <<44172>>,  \* 게
    <<45936>>,  \* 데
    <<51216>>,  \* 점
    <<46319>>,  \* 듯
    <<51221, 46020>>,  \* 정도
    <<51228>>,  \* 제
    <<45236>>,  \* 내
    <<45348>>,  \* 네
    <<45784>>,  \* 님
    <<48516>>,  \* 분
    <<44060>>,  \* 개
    <<48264>>,  \* 번
    <<47568>>,  \* 말
    <<45796, 47480>>,  \* 다른
    <<45796, 49884>>,  \* 다시
    <<54616, 45208>>,  \* 하나
    <<50668, 44592>>,  \* 여기
    <<44144, 44592>>,  \* 거기
    <<50612, 46356>>,  \* 어디
    <<50616, 51228>>,  \* 언제
    <<50612, 46523, 44172>>,  \* 어떻게
    <<50780>>,  \* 왜
    <<47924, 50631>>,  \* 무엇
    <<45572, 44396>>,  \* 누구
    <<51088, 52404>>,  \* 자체
    <<49324, 50857>>,  \* 사용
    <<44396, 47588>>,  \* 구매
    <<44396, 51077>>,  \* 구입
    <<51452, 47928>>,  \* 주문
    <<48176, 49569>>,  \* 배송
    <<51228, 54408>>,  \* 제품
    <<49345, 54408>>,  \* 상품
    <<54980, 44592>>,  \* 후기
    <<44228, 49549>>,  \* 계속
    <<48512, 48516>>,  \* 부분
    <<51221, 47568>>,  \* 정말
    <<51652, 51676>>,  \* 진짜
    <<50756, 51204>>,  \* 완전
    <<45320, 47924>>,  \* 너무
    <<50500, 51452>>,  \* 아주
    <<47588, 50864>>,  \* 매우
    <<50628, 52397>>,  \* 엄청
    <<49373, 44033>>,  \* 생각
    <<45712, 45196>>,  \* 느낌
    <<44592, 48516>>,  \* 기분
    <<52376, 51020>>,  \* 처음
    <<47560, 51020>>  \* 마음
  }

POSITIVE_WORDS ==
  {
    <<51339, 45796>>,  \* 좋다
    <<51339, 50500>>,  \* 좋아
    <<51339, 51008>>,  \* 좋은
    <<52572, 44256>>,  \* 최고
    <<47564, 51313>>,  \* 만족
    <<52628, 52380>>,  \* 추천
    <<54988, 47469>>,  \* 훌륭
    <<50756, 48317>>,  \* 완벽
    <<51339, 50520>>,  \* 좋았
    <<45824, 48149>>,  \* 대박
    <<49324, 46993>>,  \* 사랑
    <<50696, 49240>>,  \* 예쁘
    <<44628, 45140>>,  \* 깔끔
    <<48512, 46300, 47101>>,  \* 부드럽
    <<52489, 52489>>,  \* 촉촉
    <<48372, 49845>>,  \* 보습
    <<54693, 44592>>,  \* 향기
    <<44256, 44553>>,  \* 고급
    <<49328, 46907>>,  \* 산뜻
    <<44060, 50868>>,  \* 개운
    <<54952, 44284>>,  \* 효과
    <<44415>>,  \* 굿
    <<44316, 52270>>,  \* 괜찮
    <<54200, 54616>>,  \* 편하
    <<47576, 50640>>  \* 맘에
  }

NEGATIVE_WORDS ==
  {
    <<48324, 47196>>,  \* 별로
    <<49899>>,  \* 싫
    <<45208, 49240>>,  \* 나쁘
    <<50500, 49789>>,  \* 아쉽
    <<48520, 47564>>,  \* 불만
    <<52572, 50501>>,  \* 최악
    <<54980, 54924>>,  \* 후회
    <<49892, 47581>>,  \* 실망
    <<51676, 51613>>,  \* 짜증
    <<51088, 44537>>,  \* 자극
    <<46384, 44049>>,  \* 따갑
    <<44148, 51312>>,  \* 건조
    <<44144, 52832>>,  \* 거칠
    <<50500, 54532>>,  \* 아프
    <<48520, 54200>>,  \* 불편
    <<48708, 49912>>,  \* 비싸
    <<45252, 49352>>,  \* 냄새
    <<44032, 47157>>,  \* 가렵
    <<53944, 47084, 48660>>,  \* 트러블
    <<49072, 47336, 51648>>,  \* 뾰루지
    <<50508, 47112, 47476, 44592>>,  \* 알레르기
    <<50504, 51339>>,  \* 안좋
    <<47803, 50416>>  \* 못쓰
  }

REVIEW_COLS ==
  <<
    <<47532, 48624>>,  \* 리뷰
    <<45236, 50857>>,  \* 내용
    <<47532, 48624, 45236, 50857>>,  \* 리뷰내용
    <<47532, 48624, 32, 45236, 50857>>,  \* 리뷰 내용
    <<54980, 44592>>,  \* 후기
    <<114, 101, 118, 105, 101, 119>>,  \* review
    <<99, 111, 110, 116, 101, 110, 116>>,  \* content
    <<116, 101, 120, 116>>,  \* text
    <<99, 111, 109, 109, 101, 110, 116>>,  \* comment
    <<98, 111, 100, 121>>  \* body
  >>

RATING_COLS ==
  <<
    <<48324, 51216>>,  \* 별점
    <<54217, 51216>>,  \* 평점
    <<51216, 49688>>,  \* 점수
    <<114, 97, 116, 105, 110, 103>>,  \* rating
    <<115, 99, 111, 114, 101>>,  \* score
    <<115, 116, 97, 114>>,  \* star
    <<115, 116, 97, 114, 115>>  \* stars
  >>

----------------------------------------------------------------------------
(* Bounds of the model.                                                    *)

MaxRows == 2       \* rows of a table in the pipeline
MaxTextLen == 4    \* characters of a review text in SpecLexicon
MaxRating == 6     \* numeric rating cells range over 0..MaxRating
MaxCellLen == 2    \* characters of a string rating cell

----------------------------------------------------------------------------
(* Python values.                                                          *)

None == << >>

NaN == [isnan |-> TRUE, v |-> 0]
Number(n) == [isnan |-> FALSE, v |-> n]

\* A table cell: missing (NaN / None), a number, or a string.
Missing == [kind |-> "missing", num |-> 0, str |-> << >>]
NumCell(n) == [kind |-> "num", num |-> n, str |-> << >>]
StrCell(s) == [kind |-> "str", num |-> 0, str |-> s]

\* Python's comparisons with a float operand: every comparison with NaN is False.
Ge(r, t) == ~r.isnan /\ r.v >= t
Le(r, t) == ~r.isnan /\ r.v <= t

IsDigit(c) == c \in 48..57
IsSpace(c) == c \in {9, 10, 11, 12, 13, 32}
IsAsciiLetter(c) == c \in (65..90) \cup (97..122)
IsHangul(c) == c \in 44032..55203

\* The decimal digits of a natural number, as str() writes them.
RECURSIVE Digits(_)
Digits(n) == IF n < 10 THEN << 48 + n >> ELSE Digits(n \div 10) \o << 48 + (n % 10) >>

\* The value of a string of decimal digits.
RECURSIVE DigitsValue(_)
DigitsValue(s) ==
  IF s = << >> THEN 0
  ELSE 10 * DigitsValue(SubSeq(s, 1, Len(s) - 1)) + (s[Len(s)] - 48)

\* str.strip(): leading and trailing whitespace removed.
RECURSIVE Strip(_)
Strip(s) ==
  IF s = << >> THEN s
  ELSE IF IsSpace(s[1]) THEN Strip(Tail(s))
  ELSE IF IsSpace(s[Len(s)]) THEN Strip(SubSeq(s, 1, Len(s) - 1))
  ELSE s

\* str.lower() on the characters of the model: A-Z map to a-z.
Lower(s) == [i \in 1..Len(s) |-> IF s[i] \in 65..90 THEN s[i] + 32 ELSE s[i]]

\* Python's `w in text` for strings: w occurs as a contiguous substring.
Contains(w, text) ==
  \E i \in 1..(Len(text) - Len(w) + 1) : SubSeq(text, i, i + Len(w) - 1) = w

\* fillna("").astype(str) of a review cell, line 162.
AsText(cell) ==
  IF cell.kind = "missing" THEN << >>
  ELSE IF cell.kind = "num" THEN Digits(cell.num)
  ELSE cell.str

\* to_numeric that reads every string as a number.
to_numeric_unchecked(cell) ==
  IF cell.kind = "num" THEN Number(cell.num)
  ELSE IF cell.kind = "str" THEN Number(DigitsValue(cell.str))
  ELSE NaN

\* pd.to_numeric(errors="coerce") of a rating cell, line 164: a number stays,
\* a string of digits is parsed, everything else becomes NaN.
to_numeric(cell) ==
  IF cell.kind = "num" THEN Number(cell.num)
  ELSE IF cell.kind = "str" /\ Strip(cell.str) # << >>
          /\ \A i \in 1..Len(Strip(cell.str)) : IsDigit(Strip(cell.str)[i])
       THEN Number(DigitsValue(Strip(cell.str)))
  ELSE NaN

----------------------------------------------------------------------------
(* Sentiment Classifier.                                                   *)

\* The lambda of line 165 with the comparisons in the other order.
RatingLabelNegativeFirst(r, p, n) ==
  IF Le(r, n) THEN "negative" ELSE IF Ge(r, p) THEN "positive" ELSE "neutral"

\* The lambda of line 165.
RatingLabel(r, p, n) ==
  IF Ge(r, p) THEN "positive" ELSE IF Le(r, n) THEN "negative" ELSE "neutral"

\* The number of positions at which w occurs in text.
Occurrences(w, text) ==
  Cardinality({i \in 1..(Len(text) - Len(w) + 1) : SubSeq(text, i, i + Len(w) - 1) = w})

RECURSIVE SumOver(_, _, _)
SumOver(S, text, acc) ==
  IF S = {} THEN acc
  ELSE LET w == CHOOSE x \in S : TRUE
       IN SumOver(S \ {w}, text, acc + Occurrences(w, text))

\* Lines 36-37: sum(1 for w in WORDS if w in text).
MarkerHits(WORDS, text) == Cardinality({w \in WORDS : Contains(w, text)})

SentimentOf(pos, neg) ==
  IF pos > neg THEN "positive" ELSE IF neg > pos THEN "negative" ELSE "neutral"

\* classify_sentiment_by_text with every occurrence of a marker counted.
ClassifyByOccurrences(text) ==
  SentimentOf(SumOver(POSITIVE_WORDS, text, 0), SumOver(NEGATIVE_WORDS, text, 0))

classify_sentiment_by_text(text) ==
  SentimentOf(MarkerHits(POSITIVE_WORDS, text), MarkerHits(NEGATIVE_WORDS, text))

----------------------------------------------------------------------------
(* Column Resolver, lines 52-56.                                           *)

Min(S) == CHOOSE x \in S : \A y \in S : x <= y
Max(S) == CHOOSE x \in S : \A y \in S : x >= y

NormName(c) == Lower(Strip(c))

\* The first column, in table order, whose normalised name is the first alias,
\* in listed order, that any column matches.
FirstMatchingColumn(columns, candidates) ==
  LET hits == {j \in 1..Len(candidates) :
                 \E i \in 1..Len(columns) : NormName(columns[i]) = candidates[j]}
  IN IF hits = {} THEN None
     ELSE columns[Min({i \in 1..Len(columns) :
                         NormName(columns[i]) = candidates[Min(hits)]})]

\* m = {c.strip().lower(): c for c in df.columns}: a later column of the same
\* normalised name overwrites an earlier one; the aliases are then tried in
\* listed order and the first alias that is a key of m decides.
find_col(columns, candidates) ==
  LET hits == {j \in 1..Len(candidates) :
                 \E i \in 1..Len(columns) : NormName(columns[i]) = candidates[j]}
  IN IF hits = {} THEN None
     ELSE columns[Max({i \in 1..Len(columns) :
                         NormName(columns[i]) = candidates[Min(hits)]})]

\* df[name] of one row.
ColIndex(name) == Min({i \in 1..Len(df.columns) : df.columns[i] = name})
Cell(row, name) == row[ColIndex(name)]

\* rdf["text"], line 162.
TextOf(i) == AsText(Cell(df.rows[i], rc))

\* csw.split(","), line 159.
RECURSIVE SplitComma(_)
SplitComma(s) ==
  LET commas == {i \in 1..Len(s) : s[i] = 44}
  IN IF commas = {} THEN << s >>
     ELSE << SubSeq(s, 1, Min(commas) - 1) >>
            \o SplitComma(SubSeq(s, Min(commas) + 1, Len(s)))

\* Line 159: {w.strip() for w in csw.split(",") if w.strip()} if csw else set().
ExtraStopwords(text) ==
  IF text = << >> THEN {}
  ELSE LET parts == SplitComma(text)
       IN {Strip(parts[i]) : i \in {j \in 1..Len(parts) : Strip(parts[j]) # << >>}}

----------------------------------------------------------------------------
(* Text Normalizer + Noun Extractor and Frequency Aggregator.              *)

NOUN_TAGS == {"NNG", "NNP", "SL"}
MIN_FORM_LEN == 2        \* the literal of len(t.form)>=2, line 33
WC_MAX_WORDS == 80       \* the literal of WordCloud(max_words=80), line 61

Token(form, tag) == [form |-> form, tag |-> tag]

\* re.sub(r"[^\w\s가-힣a-zA-Z]", " ", r), line 175.
Clean(text) ==
  [i \in 1..Len(text) |->
     IF IsDigit(text[i]) \/ IsAsciiLetter(text[i]) \/ text[i] = 95
        \/ IsHangul(text[i]) \/ IsSpace(text[i])
     THEN text[i] ELSE 32]

\* Line 33, on the tokens kiwi.analyze returned.
KeepToken(t) ==
  t.tag \in NOUN_TAGS /\ Len(t.form) >= MIN_FORM_LEN /\ t.form \notin STOPWORDS

extract_nouns(toks) ==
  LET kept == SelectSeq(toks, KeepToken)
  IN [i \in 1..Len(kept) |-> kept[i].form]

\* Line 176: the filter of extr on the result of extract_nouns.
KeepNoun(n) == Len(n) >= min_wl /\ n \notin esw

\* collections.Counter(ns): one entry per distinct element, in order of first
\* occurrence, with the number of its occurrences.
Counter(ns) ==
  LET isFirst == [i \in 1..Len(ns) |-> \A j \in 1..(i - 1) : ns[j] # ns[i]] \o << >>
      firsts == SelectSeq([i \in 1..Len(ns) |-> i], LAMBDA i : isFirst[i])
  IN [k \in 1..Len(firsts) |->
        [term |-> ns[firsts[k]],
         count |-> Cardinality({j \in 1..Len(ns) : ns[j] = ns[firsts[k]]})]]

\* The list ns of extr (lines 173-176) over the rows idx of a bucket.
RECURSIVE ExtrNouns(_)
ExtrNouns(idx) ==
  IF idx = << >> THEN << >>
  ELSE SelectSeq(extract_nouns(kiwi[Head(idx)]), KeepNoun) \o ExtrNouns(Tail(idx))

extr(idx) == Counter(ExtrNouns(idx))

\* The cleaned texts extr hands to the tagger for the rows idx.
CleanedTexts(idx) == [k \in 1..Len(idx) |-> Clean(TextOf(idx[k]))]

\* Counter.most_common(n): by descending count, equal counts in insertion
\* order, the first n entries.
SortedByCount(freq) ==
  LET rank == [i \in 1..Len(freq) |->
                 Cardinality({j \in 1..Len(freq) :
                    \/ freq[j].count > freq[i].count
                    \/ freq[j].count = freq[i].count /\ j < i})] \o << >>
  IN [k \in 1..Len(freq) |-> freq[CHOOSE i \in 1..Len(freq) : rank[i] = k - 1]]

Take(s, n) == SubSeq(s, 1, IF n < Len(s) THEN n ELSE Len(s))

most_common(freq, n) == Take(SortedByCount(freq), n)

Terms(freq) == [i \in 1..Len(freq) |-> freq[i].term]

\* The rows of a bucket, lines 168-170, as row numbers in table order.
RowsLabelled(label) ==
  SelectSeq([i \in 1..Len(df.rows) |-> i], LAMBDA i : sent[i] = label)
AllRows == [i \in 1..Len(df.rows) |-> i]

----------------------------------------------------------------------------
(* Word-Cloud Renderer and keyword table.                                  *)

Buckets == {"pos", "neg", "all"}

Freq(b) == IF b = "pos" THEN pf ELSE IF b = "neg" THEN nf ELSE af

RenderPc(b) == IF b = "pos" THEN "render_pos"
               ELSE IF b = "neg" THEN "render_neg" ELSE "render_all"
AfterRender(b) == IF b = "pos" THEN "render_neg"
                  ELSE IF b = "neg" THEN "render_all" ELSE "report"

\* make_wc without the guard of line 59.
make_wc_unguarded(freq) ==
  [kind |-> "cloud", engine |-> 1,
   terms |-> Terms(Take(SortedByCount(freq), WC_MAX_WORDS))]

\* make_wc, lines 58-62: the placeholder figure for an empty mapping; otherwise
\* one call of WordCloud(max_words=80).generate_from_frequencies, which lays
\* out the max_words most frequent entries of the mapping it is given.
make_wc(freq) ==
  IF freq = << >>
  THEN [kind |-> "placeholder", engine |-> 0, terms |-> << >>]
  ELSE [kind |-> "cloud", engine |-> 1,
        terms |-> Terms(Take(SortedByCount(freq), WC_MAX_WORDS))]

\* show_kw_table, lines 67-72: what it writes to the page.
show_kw_table(freq, n, b) ==
  IF most_common(freq, n) = << >> THEN {<< "no_keywords", b >>}
  ELSE {<< "kw_table", b >>, << "csv", b >>}

----------------------------------------------------------------------------
(* Inputs of a run.                                                        *)

DEFAULT_MAX_WORDS == 80   \* st.slider(..., 30, 200, 80, step=10), line 128
DEFAULT_TOP_N == 20       \* st.slider(..., 10, 50, 20, step=5), line 130
DEFAULT_MIN_WL == 2       \* st.slider(..., 1, 5, 2), line 129

MaxWordsChoices == {30 + 10 * k : k \in 0..17}
MinWlChoices == 1..5
ThresholdChoices == 1..5

NoKey == << >>
SomeKey == << 107, 101, 121 >>   \* "key"

\* Headers of the pipeline's tables: " Review " with "Score" (rating mode),
\* "내용" (lexicon mode), "x" (no alias: manual selection).
PipelineHeaders ==
  { << << 32, 82, 101, 118, 105, 101, 119, 32 >>, << 83, 99, 111, 114, 101 >> >>,
    << << 45236, 50857 >> >>,
    << << 120 >> >> }

\* Rows of the pipeline's tables: the review cell, the rating cell (used when
\* the header has a rating column) and the tagger's analysis of the review.
PipelineRows ==
  { [review |-> Missing, rating |-> Missing, toks |-> << >>],
    \* "굿 효과", 5
    [review |-> StrCell(<< 44415, 32, 54952, 44284 >>), rating |-> NumCell(5),
     toks |-> << Token(<< 44415 >>, "NNG"), Token(<< 54952, 44284 >>, "NNG") >>],
    \* "싫 냄새!", "x"
    [review |-> StrCell(<< 49899, 32, 45252, 49352, 33 >>), rating |-> StrCell(<< 120 >>),
     toks |-> << Token(<< 49899 >>, "VA"), Token(<< 45252, 49352 >>, "NNG") >>],
    \* "배송 abc", 3
    [review |-> StrCell(<< 48176, 49569, 32, 97, 98, 99 >>), rating |-> NumCell(3),
     toks |-> << Token(<< 48176, 49569 >>, "NNG"), Token(<< 97, 98, 99 >>, "SL") >>] }

SeqsUpTo(S, n) == UNION {[1..k -> S] : k \in 0..n}

TableOf(header, rs) ==
  [columns |-> header,
   rows |-> [i \in 1..Len(rs) |->
               IF Len(header) = 2 THEN << rs[i].review, rs[i].rating >>
               ELSE << rs[i].review >>]]

NoFigures == [b \in Buckets |-> "none"]
NoTerms == [b \in Buckets |-> << >>]
NoCalls == [b \in Buckets |-> 0]

\* The variables the run has not yet assigned.
Unassigned ==
  /\ rc = None /\ rtc = None /\ pmin = 0 /\ nmax = 0 /\ esw = {}
  /\ sent = << >> /\ pf = << >> /\ nf = << >> /\ af = << >> /\ taggerIn = << >>
  /\ fig = NoFigures /\ figKind = NoFigures /\ cloudTerms = NoTerms
  /\ engineCalls = NoCalls /\ attempted = {}
  /\ llmCalls = 0 /\ llmResult = "none"

Init ==
  /\ pc = "upload"
  /\ \E header \in PipelineHeaders, rs \in SeqsUpTo(PipelineRows, MaxRows) :
       /\ df = TableOf(header, rs)
       /\ kiwi = [i \in 1..Len(rs) |-> rs[i].toks]
  /\ api_key \in {NoKey, SomeKey}
  /\ max_words = DEFAULT_MAX_WORDS
  /\ min_wl \in MinWlChoices
  /\ top_n = DEFAULT_TOP_N
  /\ csw = << >>
  /\ ui = {}
  /\ Unassigned

----------------------------------------------------------------------------
(* The script run, lines 137-228.                                          *)

\* Lines 138-149: the file parses.
LoadOk ==
  /\ pc = "upload"
  /\ pc' = "resolve"
  /\ ui' = ui \cup {<< "loaded", "-" >>}
  /\ UNCHANGED << df, kiwi, api_key, max_words, min_wl, top_n, csw, rc, rtc, pmin,
                  nmax, esw, sent, pf, nf, af, taggerIn, fig, figKind, cloudTerms,
                  engineCalls, attempted, llmCalls, llmResult >>

\* Line 147: the file does not parse; st.error, then st.stop() ends the run.
LoadError ==
  /\ pc = "upload"
  /\ pc' = "halted"
  /\ ui' = ui \cup {<< "file_error", "-" >>}
  /\ UNCHANGED << df, kiwi, api_key, max_words, min_wl, top_n, csw, rc, rtc, pmin,
                  nmax, esw, sent, pf, nf, af, taggerIn, fig, figKind, cloudTerms,
                  engineCalls, attempted, llmCalls, llmResult >>

\* Lines 150-161: the columns are resolved (the review column by manual
\* selection when no alias matches), the threshold sliders are shown for a
\* rating column, the exclusion set is parsed and the button is pressed.
ResolveColumns ==
  /\ pc = "resolve"
  /\ LET found == find_col(df.columns, REVIEW_COLS)
     IN IF found = None
        THEN /\ \E i \in 1..Len(df.columns) : rc' = df.columns[i]
             /\ ui' = ui \cup {<< "selectbox", "-" >>}
        ELSE /\ rc' = found
             /\ ui' = ui \cup {<< "columns_info", "-" >>}
  /\ rtc' = find_col(df.columns, RATING_COLS)
  /\ IF rtc' # None
     THEN pmin' \in ThresholdChoices /\ nmax' \in ThresholdChoices
     ELSE UNCHANGED << pmin, nmax >>
  /\ esw' = ExtraStopwords(csw)
  /\ pc' = "classify"
  /\ UNCHANGED << df, kiwi, api_key, max_words, min_wl, top_n, csw, sent, pf, nf,
                  af, taggerIn, fig, figKind, cloudTerms, engineCalls, attempted,
                  llmCalls, llmResult >>

\* Lines 162-170: rating mode with a rating column, lexicon mode without.
Classify ==
  /\ pc = "classify"
  /\ sent' = [i \in 1..Len(df.rows) |->
                IF rtc # None
                THEN RatingLabel(to_numeric(Cell(df.rows[i], rtc)), pmin, nmax)
                ELSE classify_sentiment_by_text(TextOf(i))]
  /\ pc' = "analyse"
  /\ UNCHANGED << df, kiwi, api_key, max_words, min_wl, top_n, csw, rc, rtc, pmin,
                  nmax, esw, pf, nf, af, taggerIn, fig, figKind, cloudTerms,
                  engineCalls, attempted, ui, llmCalls, llmResult >>

\* Lines 172-189: the three Counters, positive, negative, all.
Analyse ==
  /\ pc = "analyse"
  /\ pf' = extr(RowsLabelled("positive"))
  /\ nf' = extr(RowsLabelled("negative"))
  /\ af' = extr(AllRows)
  /\ taggerIn' = CleanedTexts(RowsLabelled("positive"))
                   \o CleanedTexts(RowsLabelled("negative")) \o CleanedTexts(AllRows)
  /\ ui' = ui \cup {<< "counts", "-" >>}
  /\ pc' = "render_pos"
  /\ UNCHANGED << df, kiwi, api_key, max_words, min_wl, top_n, csw, rc, rtc, pmin,
                  nmax, esw, sent, fig, figKind, cloudTerms, engineCalls, attempted,
                  llmCalls, llmResult >>

\* Lines 194-198, 200-204, 206-209: one bucket's block: make_wc, st.pyplot,
\* the PNG download of fig_bytes, plt.close, the keyword table.
Render(b) ==
  /\ pc = RenderPc(b)
  /\ LET w == make_wc(most_common(Freq(b), max_words))
     IN /\ figKind' = [figKind EXCEPT ![b] = w.kind]
        /\ cloudTerms' = [cloudTerms EXCEPT ![b] = w.terms]
        /\ engineCalls' = [engineCalls EXCEPT ![b] = @ + w.engine]
  /\ fig' = [fig EXCEPT ![b] = "closed"]
  /\ attempted' = attempted \cup {b}
  /\ ui' = ui \cup {<< "plot", b >>, << "png", b >>} \cup show_kw_table(Freq(b), top_n, b)
  /\ pc' = AfterRender(b)
  /\ UNCHANGED << df, kiwi, api_key, max_words, min_wl, top_n, csw, rc, rtc, pmin,
                  nmax, esw, sent, pf, nf, af, taggerIn, llmCalls, llmResult >>

\* Lines 212-214: no credential: the warning and the hint, nothing else.
ReportNoKey ==
  /\ pc = "report"
  /\ api_key = NoKey
  /\ ui' = ui \cup {<< "key_warning", "-" >>, << "key_hint", "-" >>}
  /\ pc' = "done"
  /\ UNCHANGED << df, kiwi, api_key, max_words, min_wl, top_n, csw, rc, rtc, pmin,
                  nmax, esw, sent, pf, nf, af, taggerIn, fig, figKind, cloudTerms,
                  engineCalls, attempted, llmCalls, llmResult >>

\* What the page shows after a successful call, lines 224-225.
ReportShown == {<< "report", "-" >>, << "report_download", "-" >>}
\* What the except clause shows, lines 227-228.
ErrorShown == {<< "llm_error", "-" >>, << "key_info", "-" >>}

\* Lines 216-225: the call of generate_content answers.
ReportOk ==
  /\ pc = "report"
  /\ api_key # NoKey
  /\ llmCalls' = llmCalls + 1
  /\ llmResult' = "ok"
  /\ ui' = ui \cup ReportShown
  /\ pc' = "done"
  /\ UNCHANGED << df, kiwi, api_key, max_words, min_wl, top_n, csw, rc, rtc, pmin,
                  nmax, esw, sent, pf, nf, af, taggerIn, fig, figKind, cloudTerms,
                  engineCalls, attempted >>

\* ReportFails with a second call after the first one raised.
ReportFailsAndRetries ==
  /\ pc = "report"
  /\ api_key # NoKey
  /\ llmCalls' = llmCalls + 2
  /\ llmResult' = "ok"
  /\ ui' = ui \cup ReportShown
  /\ pc' = "done"
  /\ UNCHANGED << df, kiwi, api_key, max_words, min_wl, top_n, csw, rc, rtc, pmin,
                  nmax, esw, sent, pf, nf, af, taggerIn, fig, figKind, cloudTerms,
                  engineCalls, attempted >>

\* Lines 216-228: the call raises (generate_content, or reading resp.text);
\* the except clause shows the error and the run goes on.
ReportFails ==
  /\ pc = "report"
  /\ api_key # NoKey
  /\ llmCalls' = llmCalls + 1
  /\ llmResult' = "error"
  /\ ui' = ui \cup ErrorShown
  /\ pc' = "done"
  /\ UNCHANGED << df, kiwi, api_key, max_words, min_wl, top_n, csw, rc, rtc, pmin,
                  nmax, esw, sent, pf, nf, af, taggerIn, fig, figKind, cloudTerms,
                  engineCalls, attempted >>

Next ==
  \/ LoadOk
  \/ LoadError
  \/ ResolveColumns
  \/ Classify
  \/ Analyse
  \/ \E b \in Buckets : Render(b)
  \/ ReportNoKey
  \/ ReportOk
  \/ ReportFails

Spec == Init /\ [][Next]_vars

----------------------------------------------------------------------------
(* The run when a call of a render block raises.  The blocks of lines      *)
(* 194-209 stand in no try statement, so the exception ends the run.       *)

\* WordCloud(...).generate_from_frequencies raises inside make_wc, line 61:
\* no figure has been created yet.
LayoutRaises(b) ==
  /\ pc = RenderPc(b)
  /\ most_common(Freq(b), max_words) # << >>
  /\ engineCalls' = [engineCalls EXCEPT ![b] = @ + 1]
  /\ attempted' = attempted \cup {b}
  /\ ui' = ui \cup {<< "exception", b >>}
  /\ pc' = "crashed"
  /\ UNCHANGED << df, kiwi, api_key, max_words, min_wl, top_n, csw, rc, rtc, pmin,
                  nmax, esw, sent, pf, nf, af, taggerIn, fig, figKind, cloudTerms,
                  llmCalls, llmResult >>

\* st.pyplot raises, lines 195 / 201 / 207: make_wc has returned the figure.
DisplayRaises(b) ==
  /\ pc = RenderPc(b)
  /\ LET w == make_wc(most_common(Freq(b), max_words))
     IN /\ figKind' = [figKind EXCEPT ![b] = w.kind]
        /\ cloudTerms' = [cloudTerms EXCEPT ![b] = w.terms]
        /\ engineCalls' = [engineCalls EXCEPT ![b] = @ + w.engine]
  /\ fig' = [fig EXCEPT ![b] = "open"]
  /\ attempted' = attempted \cup {b}
  /\ ui' = ui \cup {<< "exception", b >>}
  /\ pc' = "crashed"
  /\ UNCHANGED << df, kiwi, api_key, max_words, min_wl, top_n, csw, rc, rtc, pmin,
                  nmax, esw, sent, pf, nf, af, taggerIn, llmCalls, llmResult >>

\* fig_bytes (fig.savefig) raises, lines 196 / 202 / 208: the figure has been
\* displayed; plt.close, later on the same line, is not reached.
SerialiseRaises(b) ==
  /\ pc = RenderPc(b)
  /\ LET w == make_wc(most_common(Freq(b), max_words))
     IN /\ figKind' = [figKind EXCEPT ![b] = w.kind]
        /\ cloudTerms' = [cloudTerms EXCEPT ![b] = w.terms]
        /\ engineCalls' = [engineCalls EXCEPT ![b] = @ + w.engine]
  /\ fig' = [fig EXCEPT ![b] = "open"]
  /\ attempted' = attempted \cup {b}
  /\ ui' = ui \cup {<< "plot", b >>, << "exception", b >>}
  /\ pc' = "crashed"
  /\ UNCHANGED << df, kiwi, api_key, max_words, min_wl, top_n, csw, rc, rtc, pmin,
                  nmax, esw, sent, pf, nf, af, taggerIn, llmCalls, llmResult >>

NextFault ==
  \/ Next
  \/ \E b \in Buckets : LayoutRaises(b)
  \/ \E b \in Buckets : DisplayRaises(b)
  \/ \E b \in Buckets : SerialiseRaises(b)

SpecFault == Init /\ [][NextFault]_vars

----------------------------------------------------------------------------
(* Rating mode over every rating cell and every pair of thresholds.        *)

ReviewName == << 114, 101, 118, 105, 101, 119 >>   \* "review"
RatingName == << 114, 97, 116, 105, 110, 103 >>    \* "rating"
ContentName == << 45236, 50857 >>                  \* "내용"

RatingChars == {49, 53, 120, 32}   \* "1", "5", "x", " "

RatingCells ==
  {Missing} \cup {NumCell(r) : r \in 0..MaxRating}
            \cup {StrCell(s) : s \in SeqsUpTo(RatingChars, MaxCellLen)}

\* The state lines 138-161 leave behind for a table with the given header.
Resolved(header) ==
  /\ pc = "classify"
  /\ rc = find_col(header, REVIEW_COLS)
  /\ rtc = find_col(header, RATING_COLS)
  /\ esw = ExtraStopwords(csw)
  /\ ui = {<< "loaded", "-" >>, << "columns_info", "-" >>}
  /\ sent = << >> /\ pf = << >> /\ nf = << >> /\ af = << >> /\ taggerIn = << >>
  /\ fig = NoFigures /\ figKind = NoFigures /\ cloudTerms = NoTerms
  /\ engineCalls = NoCalls /\ attempted = {}
  /\ llmCalls = 0 /\ llmResult = "none"

DefaultSettings ==
  /\ api_key = NoKey
  /\ max_words = DEFAULT_MAX_WORDS
  /\ min_wl = DEFAULT_MIN_WL
  /\ top_n = DEFAULT_TOP_N
  /\ csw = << >>

InitRating ==
  /\ \E cell \in RatingCells :
       df = [columns |-> << ReviewName, RatingName >>, rows |-> << << Missing, cell >> >>]
  /\ kiwi = << << >> >>
  /\ DefaultSettings
  /\ pmin \in ThresholdChoices /\ nmax \in ThresholdChoices
  /\ Resolved(<< ReviewName, RatingName >>)

NextRating == Classify

SpecRating == InitRating /\ [][NextRating]_vars

----------------------------------------------------------------------------
(* Lexicon mode over every short text of marker characters.                *)

\* "굿", "싫", "최", "고", "악", " ": the markers 굿, 최고 (positive) and
\* 싫, 최악 (negative) can be spelt with them.
LexiconChars == {44415, 49899, 52572, 44256, 50501, 32}

ReviewCells ==
  {Missing, NumCell(5)} \cup {StrCell(s) : s \in SeqsUpTo(LexiconChars, MaxTextLen)}

InitLexicon ==
  /\ \E cell \in ReviewCells :
       df = [columns |-> << ContentName >>, rows |-> << << cell >> >>]
  /\ kiwi = << << >> >>
  /\ DefaultSettings
  /\ pmin = 0 /\ nmax = 0
  /\ Resolved(<< ContentName >>)

NextLexicon == Classify

SpecLexicon == InitLexicon /\ [][NextLexicon]_vars

----------------------------------------------------------------------------
(* Column resolution over tables of up to MaxCols columns.                 *)

MaxCols == 3

\* "review", " Review ", "REVIEW", "content", "Score", "stars", "별점", "x"
ColumnNames ==
  { << 114, 101, 118, 105, 101, 119 >>,
    << 32, 82, 101, 118, 105, 101, 119, 32 >>,
    << 82, 69, 86, 73, 69, 87 >>,
    << 99, 111, 110, 116, 101, 110, 116 >>,
    << 83, 99, 111, 114, 101 >>,
    << 115, 116, 97, 114, 115 >>,
    << 48324, 51216 >>,
    << 120 >> }

\* pandas keeps the names of a header distinct.
Headers ==
  {h \in SeqsUpTo(ColumnNames, MaxCols) :
     Len(h) >= 1 /\ \A i, j \in 1..Len(h) : i # j => h[i] # h[j]}

InitFindCol ==
  /\ pc = "resolve"
  /\ \E h \in Headers : df = [columns |-> h, rows |-> << >>]
  /\ kiwi = << >>
  /\ DefaultSettings
  /\ ui = {<< "loaded", "-" >>}
  /\ Unassigned

NextFindCol == ResolveColumns

SpecFindCol == InitFindCol /\ [][NextFindCol]_vars

----------------------------------------------------------------------------
(* Noun extraction over every short analysis the tagger can return.        *)

MaxToks == 2

\* "맛", "것" (stopword), "효과", "배송" (stopword), "abc", "알레르기", "hello"
TokenForms ==
  { << 47579 >>,
    << 44163 >>,
    << 54952, 44284 >>,
    << 48176, 49569 >>,
    << 97, 98, 99 >>,
    << 50508, 47112, 47476, 44592 >>,
    << 104, 101, 108, 108, 111 >> }

TokenTags == {"NNG", "NNP", "SL", "VV"}

Tokens == {Token(f, t) : f \in TokenForms, t \in TokenTags}

\* The text area: empty, "효과", " 맛 ,abc,".
CswSamples ==
  { << >>,
    << 54952, 44284 >>,
    << 32, 47579, 32, 44, 97, 98, 99, 44 >> }

\* The review of the one row: "굿" (positive), "싫" (negative).
ExtractReviews == {StrCell(<< 44415 >>), StrCell(<< 49899 >>)}

InitExtract ==
  /\ pc = "resolve"
  /\ \E cell \in ExtractReviews :
       df = [columns |-> << ContentName >>, rows |-> << << cell >> >>]
  /\ \E toks \in SeqsUpTo(Tokens, MaxToks) : kiwi = << toks >>
  /\ api_key = NoKey
  /\ max_words = DEFAULT_MAX_WORDS
  /\ min_wl \in MinWlChoices
  /\ top_n = DEFAULT_TOP_N
  /\ csw \in CswSamples
  /\ ui = {<< "loaded", "-" >>}
  /\ Unassigned

NextExtract ==
  \/ ResolveColumns
  \/ Classify
  \/ Analyse

SpecExtract == InitExtract /\ [][NextExtract]_vars

----------------------------------------------------------------------------
(* Word clouds of small frequency tables and of tables around the          *)
(* renderer's own limit of WC_MAX_WORDS terms.                             *)

MaxSmallTerms == 3
MaxOver == 2
MaxModulus == 2

TermCounts == (0..MaxSmallTerms) \cup ((WC_MAX_WORDS - 1)..(WC_MAX_WORDS + MaxOver))

\* The i-th term of a generated table.
TermNo(i) == << 44032 + i, 45796 >>

RECURSIVE Repeat(_, _)
Repeat(x, k) == IF k = 0 THEN << >> ELSE << x >> \o Repeat(x, k - 1)

\* An analysis in which the terms 1..n first occur in that order and term i
\* occurs 1 + (i % m) times in all.
RECURSIVE Extras(_, _)
Extras(n, m) ==
  IF n = 0 THEN << >>
  ELSE Extras(n - 1, m) \o Repeat(Token(TermNo(n), "NNG"), n % m)

Analysis(n, m) == [i \in 1..n |-> Token(TermNo(i), "NNG")] \o Extras(n, m)

InitCloud ==
  /\ pc = "classify"
  /\ \E cell \in ExtractReviews :
       df = [columns |-> << ContentName >>, rows |-> << << cell >> >>]
  /\ \E n \in TermCounts, m \in 1..MaxModulus : kiwi = << Analysis(n, m) >>
  /\ api_key = NoKey
  /\ max_words \in MaxWordsChoices
  /\ min_wl = DEFAULT_MIN_WL
  /\ top_n = DEFAULT_TOP_N
  /\ csw = << >>
  /\ pmin = 0 /\ nmax = 0
  /\ Resolved(<< ContentName >>)

NextCloud ==
  \/ Classify
  \/ Analyse
  \/ \E b \in Buckets : Render(b)

SpecCloud == InitCloud /\ [][NextCloud]_vars

----------------------------------------------------------------------------
(* Claims.                                                                 *)

Labels == {"positive", "negative", "neutral"}

Classified == pc \notin {"upload", "resolve", "classify", "halted"}

RatingOf(i) == to_numeric(Cell(df.rows[i], rtc))

\* C1: in rating mode, for every numeric rating r and thresholds (p, n) in
\* 1..5, the row is positive iff r >= p, negative iff r <= n and not r >= p,
\* and neutral otherwise; a rating that satisfies both comparisons is positive.
C1_RatingThresholds ==
  (Classified /\ rtc # None) =>
    \A i \in 1..Len(df.rows) :
      ~RatingOf(i).isnan =>
        /\ sent[i] = "positive" <=> RatingOf(i).v >= pmin
        /\ sent[i] = "negative" <=> (RatingOf(i).v <= nmax /\ ~(RatingOf(i).v >= pmin))
        /\ sent[i] = "neutral" <=> (~(RatingOf(i).v >= pmin) /\ ~(RatingOf(i).v <= nmax))

\* C1 witness: overlapping thresholds (p <= n) and a rating between them,
\* labelled positive.
C1_Witness ==
  /\ Classified /\ rtc # None /\ pmin <= nmax
  /\ ~RatingOf(1).isnan /\ RatingOf(1).v >= pmin /\ RatingOf(1).v <= nmax
  /\ sent[1] = "positive"

\* The markers of a lexicon that occur in the text at least once.
Present(WORDS, text) == {w \in WORDS : Occurrences(w, text) >= 1}

\* C2 as stated: in lexicon mode the label compares the numbers of substring
\* occurrences of the positive and of the negative markers, a marker that
\* occurs k times counting k times.
C2_CountsEveryOccurrence ==
  (Classified /\ rtc = None) =>
    \A i \in 1..Len(df.rows) : sent[i] = ClassifyByOccurrences(TextOf(i))

\* C2 as amended: in lexicon mode the label compares the number of positive
\* markers that occur in the text with the number of negative markers that
\* occur in it, each marker counting once however often it occurs: positive
\* if more positive markers, negative if more negative ones, neutral on a tie.
C2_CountsMarkersPresent ==
  (Classified /\ rtc = None) =>
    \A i \in 1..Len(df.rows) :
      LET p == Cardinality(Present(POSITIVE_WORDS, TextOf(i)))
          n == Cardinality(Present(NEGATIVE_WORDS, TextOf(i)))
      IN /\ sent[i] = "positive" <=> p > n
         /\ sent[i] = "negative" <=> n > p
         /\ sent[i] = "neutral" <=> p = n

\* C2 witness: a text in which one positive marker occurs twice and one
\* negative marker once, labelled neutral.
C2_Witness ==
  /\ Classified /\ rtc = None
  /\ \E w \in POSITIVE_WORDS : Occurrences(w, TextOf(1)) = 2
  /\ Cardinality(Present(POSITIVE_WORDS, TextOf(1))) = 1
  /\ Cardinality(Present(NEGATIVE_WORDS, TextOf(1))) = 1
  /\ sent[1] = "neutral"

Analysed == pc \notin {"upload", "resolve", "classify", "analyse", "halted"}

BucketRows(b) ==
  {i \in 1..Len(df.rows) :
     b = "all" \/ (b = "pos" /\ sent[i] = "positive") \/ (b = "neg" /\ sent[i] = "negative")}

CountIn(freq, f) ==
  IF \E i \in 1..Len(freq) : freq[i].term = f
  THEN freq[CHOOSE i \in 1..Len(freq) : freq[i].term = f].count
  ELSE 0

\* The tokens of the bucket's rows with surface form f that C3 says are counted.
Qualifying(b, f) ==
  {ik \in UNION {{<< i, k >> : k \in 1..Len(kiwi[i])} : i \in BucketRows(b)} :
     LET t == kiwi[ik[1]][ik[2]]
     IN /\ t.form = f
        /\ t.tag \in {"NNG", "NNP", "SL"}
        /\ Len(f) >= min_wl
        /\ f \notin STOPWORDS
        /\ f \notin esw}

\* C3: for every min_word_length in 1..5, exclusion set and tagged token, the
\* surface form is counted in the bucket's table iff its tag is NNG, NNP or SL,
\* its length is >= min_word_length and it is neither a stopword nor excluded.
C3_CountedIffQualifying ==
  Analysed =>
    \A b \in Buckets : \A i \in 1..Len(kiwi) : \A k \in 1..Len(kiwi[i]) :
      CountIn(Freq(b), kiwi[i][k].form) = Cardinality(Qualifying(b, kiwi[i][k].form))

\* C4: find_col returns the first column whose trimmed, lower-cased name
\* matches an alias, the aliases taken in listed order, or no column; also
\* when two columns have the same name after trimming and lower-casing.
C4_FirstMatchingColumn ==
  pc = "classify" =>
    /\ rtc = FirstMatchingColumn(df.columns, RATING_COLS)
    /\ FirstMatchingColumn(df.columns, REVIEW_COLS) # None =>
         rc = FirstMatchingColumn(df.columns, REVIEW_COLS)

Range(s) == {s[i] : i \in 1..Len(s)}

\* Entry i of the table ranks before entry j: a higher count, or the same
\* count and accumulated earlier.
RanksBefore(freq, i, j) ==
  \/ freq[i].count > freq[j].count
  \/ freq[i].count = freq[j].count /\ i < j

\* C5: for every bucket and max_words in 30..200 the terms of the word cloud
\* are exactly the min(max_words, number of terms) highest-count terms of the
\* bucket's table, equal counts ranked in order of first accumulation.
C5_CloudUsesTopMaxWords ==
  \A b \in Buckets :
    figKind[b] = "cloud" =>
      LET f == Freq(b)
          inCloud == {i \in 1..Len(f) : f[i].term \in Range(cloudTerms[b])}
      IN /\ Cardinality(inCloud) = (IF max_words < Len(f) THEN max_words ELSE Len(f))
         /\ \A i \in inCloud : \A j \in (1..Len(f)) \ inCloud : RanksBefore(f, i, j)

RunEnded == pc \in {"done", "crashed", "halted"}

\* C6: a failure while rendering or exporting one bucket's word cloud does
\* not prevent the other buckets' render attempts: all three are still made.
C6_RenderAttemptsIndependent ==
  (RunEnded /\ \E b \in Buckets : << "exception", b >> \in ui) => attempted = Buckets

\* C7: every figure make_wc created is closed on every path by which the run
\* ends, also when displaying or serialising it raises, and a run halted by a
\* load error leaves no open figure.
C7_FiguresReleased ==
  RunEnded => \A b \in Buckets : fig[b] # "open"

\* What the report tab can write to the page.
ReportTab ==
  {<< "key_warning", "-" >>, << "key_hint", "-" >>} \cup ReportShown \cup ErrorShown

\* C8: the language-model service is called at most once per run and never
\* retried: once when a credential is supplied (counted when the run has
\* reached its end), not at all when it is absent;
\* the report download exists iff the call succeeded; without a credential
\* the tab shows only the warning; a failed call is caught (the run ends
\* normally) and shows only the error.
C8_ReportCalledOnce ==
  /\ llmCalls <= 1
  /\ api_key = NoKey => llmCalls = 0
  /\ (pc = "done" /\ api_key # NoKey) => llmCalls = 1
  /\ << "report_download", "-" >> \in ui <=> llmResult = "ok"
  /\ (pc = "done" /\ api_key = NoKey) =>
       ui \cap ReportTab = {<< "key_warning", "-" >>, << "key_hint", "-" >>}
  /\ llmResult = "error" => (pc = "done" /\ llmCalls = 1 /\ ui \cap ReportTab = ErrorShown)
  /\ pc # "done" => ui \cap ReportTab = {}

\* C8 witness: a run with a credential whose call failed: called once, the
\* error shown, no report download.
C8_Witness ==
  /\ pc = "done" /\ api_key # NoKey /\ llmResult = "error" /\ llmCalls = 1
  /\ << "llm_error", "-" >> \in ui /\ << "report_download", "-" >> \notin ui

\* C9: for an empty frequency mapping make_wc returns the placeholder without
\* invoking the layout engine and without an error, and the bucket's keyword
\* table shows the no-keywords message and no CSV download; for a non-empty
\* mapping the layout engine is invoked exactly once for the bucket.
C9_EmptyBucketPlaceholder ==
  \A b \in Buckets :
    /\ (b \in attempted /\ Freq(b) = << >>) =>
         /\ figKind[b] = "placeholder" /\ engineCalls[b] = 0
         /\ << "exception", b >> \notin ui
         /\ << "plot", b >> \in ui
         /\ << "no_keywords", b >> \in ui
         /\ << "csv", b >> \notin ui /\ << "kw_table", b >> \notin ui
    /\ (b \in attempted /\ Freq(b) # << >>) =>
         /\ figKind[b] = "cloud" /\ engineCalls[b] = 1
         /\ << "csv", b >> \in ui /\ << "no_keywords", b >> \notin ui
    /\ b \notin attempted => engineCalls[b] = 0
    /\ pc = "done" => b \in attempted

\* C9 witness: a finished run with an empty negative bucket (placeholder, no
\* engine call, no-keywords message) and a non-empty all-reviews bucket.
C9_Witness ==
  /\ pc = "done" /\ nf = << >> /\ af # << >>
  /\ figKind["neg"] = "placeholder" /\ engineCalls["neg"] = 0
  /\ << "no_keywords", "neg" >> \in ui /\ engineCalls["all"] = 1

\* A rating cell that holds no number: missing, blank, or a string with a
\* character other than a digit between its surrounding whitespace.
NotNumeric(cell) ==
  \/ cell.kind = "missing"
  \/ cell.kind = "str" /\ Strip(cell.str) = << >>
  \/ cell.kind = "str" /\ \E k \in 1..Len(Strip(cell.str)) : ~IsDigit(Strip(cell.str)[k])

HasRatingColumn ==
  \E i \in 1..Len(df.columns) : \E j \in 1..Len(RATING_COLS) :
    NormName(df.columns[i]) = RATING_COLS[j]

\* C10: after classification every row carries exactly one label of
\* {positive, negative, neutral}; the mode is rating mode iff a rating column
\* was resolved; in rating mode a missing or non-numeric rating cell is neutral
\* for every pair of thresholds, in lexicon mode a missing or empty text cell
\* is neutral; classification never fails for a row.
C10_EveryRowLabelled ==
  /\ pc = "classify" => ENABLED Classify
  /\ pc \notin {"upload", "resolve", "halted"} => (rtc # None <=> HasRatingColumn)
  /\ Classified =>
       /\ Len(sent) = Len(df.rows)
       /\ \A i \in 1..Len(df.rows) :
            /\ sent[i] \in Labels
            /\ (rtc # None /\ NotNumeric(Cell(df.rows[i], rtc))) => sent[i] = "neutral"
            /\ (rtc # None /\ Cell(df.rows[i], rtc).kind = "num") =>
                 sent[i] = (IF Cell(df.rows[i], rtc).num >= pmin THEN "positive"
                            ELSE IF Cell(df.rows[i], rtc).num <= nmax THEN "negative"
                            ELSE "neutral")
            /\ (rtc = None /\ Cell(df.rows[i], rc).kind = "missing") => sent[i] = "neutral"
            /\ (rtc = None /\ Cell(df.rows[i], rc) = StrCell(<< >>)) => sent[i] = "neutral"
            /\ (rtc = None /\ Present(POSITIVE_WORDS, TextOf(i)) # {}
                           /\ Present(NEGATIVE_WORDS, TextOf(i)) = {}) => sent[i] = "positive"

\* C10 witness: a classified two-row table in rating mode whose first row has
\* a non-numeric rating cell and is neutral although its text holds a negative
\* marker, for overlapping thresholds.
C10_Witness ==
  /\ Classified /\ rtc # None /\ Len(df.rows) = 2 /\ pmin <= nmax
  /\ Cell(df.rows[1], rtc).kind = "str" /\ NotNumeric(Cell(df.rows[1], rtc))
  /\ Present(NEGATIVE_WORDS, TextOf(1)) # {}
  /\ sent[1] = "neutral"

====
